---- MODULE Spec2Model ----
(***************************************************************************)
(* Model of Advent of Code 2023, day 1 (src/src/day1.rs, src/src/main.rs). *)
(* Lines are sequences of bytes (ASCII codes).  An Option<u64> is a        *)
(* sequence: None is <<>>, Some(v) is <<v>>.  A panic (slice index out of  *)
(* range, index into an empty slice, usize subtraction underflow) is the   *)
(* distinguished value PANIC, which every caller propagates.               *)
(***************************************************************************)
EXTENDS Integers, Sequences, FiniteSets, TLC

\* ------------------------------------------------------------------------
\* Bytes
\* ------------------------------------------------------------------------

\* The ASCII digits (from code 48), capitals (from 65) and small letters
\* (from 97), each in code order.
AsciiDigits == << "0", "1", "2", "3", "4", "5", "6", "7", "8", "9" >>
AsciiUpper ==
  << "A", "B", "C", "D", "E", "F", "G", "H", "I", "J", "K", "L", "M",
     "N", "O", "P", "Q", "R", "S", "T", "U", "V", "W", "X", "Y", "Z" >>
AsciiLower ==
  << "a", "b", "c", "d", "e", "f", "g", "h", "i", "j", "k", "l", "m",
     "n", "o", "p", "q", "r", "s", "t", "u", "v", "w", "x", "y", "z" >>

IndexOf(table, c) == CHOOSE i \in 1..Len(table) : table[i] = c

\* b'c': the byte of an ASCII digit or letter.
b(c) ==
  IF \E i \in 1..Len(AsciiDigits) : AsciiDigits[i] = c
    THEN 47 + IndexOf(AsciiDigits, c)
    ELSE IF \E i \in 1..Len(AsciiUpper) : AsciiUpper[i] = c
           THEN 64 + IndexOf(AsciiUpper, c)
           ELSE 96 + IndexOf(AsciiLower, c)

\* "text".as_bytes(), the text given as a tuple of characters.
as_bytes(cs) == [i \in 1..Len(cs) |-> b(cs[i])]

LF == 10
CR == 13

None == << >>
Some(v) == << v >>
PANIC == << -1 >>

\* Option::unwrap_or_default for u64.
unwrap_or_default(o) == IF o = None THEN 0 ELSE o[1]

\* usize subtraction; an underflow is reported as -1 and the caller panics
\* (a debug build panics at the subtraction, a release build wraps and the
\* slice or the index taken with the result is out of range).
usize_sub(x, y) == IF x < y THEN -1 ELSE x - y

\* cmp::min
min(x, y) == IF x < y THEN x ELSE y

\* &line[start..end] with 0-based start and exclusive end; PANIC when the
\* range is not inside the line.
slice_of(line, start, end) ==
  IF start < 0 \/ end < 0 \/ start > end \/ end > Len(line)
    THEN PANIC
    ELSE SubSeq(line, start + 1, end)

\* starts_with comparing the first byte only.
starts_with_first_byte(slice, needle) ==
  /\ Len(slice) >= 1
  /\ slice[1] = needle[1]

\* <[u8]>::starts_with
starts_with(slice, needle) ==
  /\ Len(needle) <= Len(slice)
  /\ SubSeq(slice, 1, Len(needle)) = needle

\* <[u8]>::ends_with
ends_with(slice, needle) ==
  /\ Len(needle) <= Len(slice)
  /\ SubSeq(slice, Len(slice) - Len(needle) + 1, Len(slice)) = needle

\* ------------------------------------------------------------------------
\* Part one: literal digits
\* ------------------------------------------------------------------------

byte_to_u64(c) ==
  IF c >= 48 /\ c <= 57 THEN Some(c - 48) ELSE None

\* for c in line.iter(): the loop from 1-based position i on.
RECURSIVE first_digit_from(_, _)
first_digit_from(line, i) ==
  IF i > Len(line)
    THEN None
    ELSE LET digit == byte_to_u64(line[i])
         IN  IF digit # None THEN digit ELSE first_digit_from(line, i + 1)

\* for c in line.iter().rev(): the loop from 1-based position i down.
RECURSIVE last_digit_from(_, _)
last_digit_from(line, i) ==
  IF i < 1
    THEN None
    ELSE LET digit == byte_to_u64(line[i])
         IN  IF digit # None THEN digit ELSE last_digit_from(line, i - 1)

\* first_digit iterating in reverse.
first_digit_rev(line) == last_digit_from(line, Len(line))

first_digit(line) == first_digit_from(line, 1)

\* last_digit iterating forward.
last_digit_forward(line) == first_digit_from(line, 1)

last_digit(line) == last_digit_from(line, Len(line))

\* ------------------------------------------------------------------------
\* Part two: literal digits and spelled digits
\* ------------------------------------------------------------------------

\* The longest spelling taken to be as long as "four".
MAX_NAMED_DIGIT_LEN_four == Len(<< "f", "o", "u", "r" >>)

MAX_NAMED_DIGIT_LEN == 5
MIN_NAMED_DIGIT_LEN == 3
ONE   == << b("o"), b("n"), b("e") >>
TWO   == << b("t"), b("w"), b("o") >>
THREE == << b("t"), b("h"), b("r"), b("e"), b("e") >>
FOUR  == << b("f"), b("o"), b("u"), b("r") >>
FIVE  == << b("f"), b("i"), b("v"), b("e") >>
SIX   == << b("s"), b("i"), b("x") >>
SEVEN == << b("s"), b("e"), b("v"), b("e"), b("n") >>
EIGHT == << b("e"), b("i"), b("g"), b("h"), b("t") >>
NINE  == << b("n"), b("i"), b("n"), b("e") >>
ALL_DIGITS ==
  << << ONE, 1 >>, << TWO, 2 >>, << THREE, 3 >>, << FOUR, 4 >>, << FIVE, 5 >>,
     << SIX, 6 >>, << SEVEN, 7 >>, << EIGHT, 8 >>, << NINE, 9 >> >>

\* for (needle, value) in table { if slice.starts_with(needle) ... }
RECURSIVE first_needle_from(_, _, _)
first_needle_from(slice, table, j) ==
  IF j > Len(table)
    THEN None
    ELSE IF starts_with(slice, table[j][1])
           THEN Some(table[j][2])
           ELSE first_needle_from(slice, table, j + 1)

\* The loop of slice_to_last_u64 testing starts_with.
last_needle_from_prefix(slice, table, j) == first_needle_from(slice, table, j)

\* for (needle, value) in table { if slice.ends_with(needle) ... }
RECURSIVE last_needle_from(_, _, _)
last_needle_from(slice, table, j) ==
  IF j > Len(table)
    THEN None
    ELSE IF ends_with(slice, table[j][1])
           THEN Some(table[j][2])
           ELSE last_needle_from(slice, table, j + 1)

slice_to_first_u64(slice) ==
  IF slice = PANIC \/ Len(slice) = 0
    THEN PANIC
    ELSE LET digit == byte_to_u64(slice[1])
         IN  IF digit # None
               THEN digit
               ELSE first_needle_from(slice, ALL_DIGITS, 1)

slice_to_last_u64(slice) ==
  IF slice = PANIC \/ usize_sub(Len(slice), 1) < 0
    THEN PANIC
    ELSE LET last  == usize_sub(Len(slice), 1)
             digit == byte_to_u64(slice[last + 1])
         IN  IF digit # None
               THEN digit
               ELSE last_needle_from(slice, ALL_DIGITS, 1)

\* for i in 0..=len - MIN_NAMED_DIGIT_LEN: the loop from i on; hi is the
\* value of len - MIN_NAMED_DIGIT_LEN.
RECURSIVE first_named_loop(_, _, _)
first_named_loop(line, i, hi) ==
  IF i > hi
    THEN None
    ELSE LET end   == min(i + MAX_NAMED_DIGIT_LEN, Len(line))
             slice == slice_of(line, i, end)
             digit == slice_to_first_u64(slice)
         IN  IF digit # None
               THEN digit
               ELSE first_named_loop(line, i + 1, hi)

\* first_named_digit without the final first_digit(line).
first_named_digit_no_tail(line) ==
  LET len == Len(line)
  IN  IF len < MIN_NAMED_DIGIT_LEN THEN first_digit(line)
      ELSE IF len = MIN_NAMED_DIGIT_LEN THEN slice_to_first_u64(line)
      ELSE first_named_loop(line, 0, usize_sub(len, MIN_NAMED_DIGIT_LEN))

first_named_digit(line) ==
  LET len == Len(line)
      digit ==
        IF len < MIN_NAMED_DIGIT_LEN THEN first_digit(line)
        ELSE IF len = MIN_NAMED_DIGIT_LEN THEN slice_to_first_u64(line)
        ELSE IF usize_sub(len, MIN_NAMED_DIGIT_LEN) < 0 THEN PANIC
        ELSE first_named_loop(line, 0, usize_sub(len, MIN_NAMED_DIGIT_LEN))
  IN  IF digit # None THEN digit ELSE first_digit(line)

\* The loop of last_named_digit with start = i - MAX_NAMED_DIGIT_LEN.
RECURSIVE last_named_loop_unclamped(_, _)
last_named_loop_unclamped(line, i) ==
  IF i < MIN_NAMED_DIGIT_LEN
    THEN None
    ELSE LET start == usize_sub(i, MAX_NAMED_DIGIT_LEN)
             slice == slice_of(line, start, i)
             digit == slice_to_last_u64(slice)
         IN  IF digit # None
               THEN digit
               ELSE last_named_loop_unclamped(line, i - 1)

\* for i in (MIN_NAMED_DIGIT_LEN..=len).rev(): the loop from i down.
RECURSIVE last_named_loop(_, _)
last_named_loop(line, i) ==
  IF i < MIN_NAMED_DIGIT_LEN
    THEN None
    ELSE LET start == usize_sub(i, min(i, MAX_NAMED_DIGIT_LEN))
             slice == slice_of(line, start, i)
             digit == slice_to_last_u64(slice)
         IN  IF digit # None
               THEN digit
               ELSE last_named_loop(line, i - 1)

last_named_digit(line) ==
  LET len == Len(line)
      digit ==
        IF len < MIN_NAMED_DIGIT_LEN THEN last_digit(line)
        ELSE IF len = MIN_NAMED_DIGIT_LEN THEN slice_to_last_u64(line)
        ELSE last_named_loop(line, len)
  IN  IF digit # None THEN digit ELSE last_digit(line)

\* ------------------------------------------------------------------------
\* Document summation and the entry point
\* ------------------------------------------------------------------------

\* str::lines(): the text is cut after every LF, the LF and a CR right
\* before it are dropped, and what follows the last LF is a line when it is
\* not empty.
strip_cr(piece) ==
  IF Len(piece) > 0 /\ piece[Len(piece)] = CR
    THEN SubSeq(piece, 1, Len(piece) - 1)
    ELSE piece

\* The lines of the text from 1-based position i on.
RECURSIVE lines_from(_, _)
lines_from(text, i) ==
  LET ends == { j \in i..Len(text) : text[j] = LF }
  IN  IF ends = {}
        THEN IF i > Len(text) THEN << >> ELSE << SubSeq(text, i, Len(text)) >>
        ELSE LET e == CHOOSE j \in ends : \A h \in ends : j <= h
             IN  << strip_cr(SubSeq(text, i, e - 1)) >> \o lines_from(text, e + 1)

lines(text) == lines_from(text, 1)

\* The closure computing first * 100 + last.
calibration_hundreds(first_, last_) ==
  unwrap_or_default(first_) * 100 + unwrap_or_default(last_)

\* The closures of day1_step1 and day1_step2: first * 10 + last.
calibration(first_, last_) ==
  unwrap_or_default(first_) * 10 + unwrap_or_default(last_)

\* The scanners of a step: day1_step1 uses first_digit / last_digit,
\* day1_step2 uses first_named_digit / last_named_digit.
step_first(s, l) == IF s = 1 THEN first_digit(l) ELSE first_named_digit(l)
step_last(s, l)  == IF s = 1 THEN last_digit(l) ELSE last_named_digit(l)

\* println! output lines.
total_line(s, n) ==
  IF s = 1
    THEN << "Day 1 part 1 : total from input is ", n, "." >>
    ELSE << "Day 1 part 2 : total from input is ", n, "." >>
done_line == << "Done." >>
error_line(e) == << e >>

\* The failures fs::read_to_string can return (io::ErrorKind).
IoErrors == { "NotFound", "PermissionDenied", "InvalidData" }

Ok(n) == << "Ok", n >>
Err(e) == << "Err", e >>

VARIABLES
  input,    \* the text of input/day1.txt
  pc,       \* "read": a step is about to read the file; "map": it folds the
            \* lines; "done": run returned Ok; "exit": main returned;
            \* "panicked": the process aborted
  step,     \* the step in progress: 1 (day1_step1) or 2 (day1_step2)
  reads,    \* how many times fs::read_to_string has been called
  k,        \* how many lines the iterator has yielded in this step
  line,     \* the line the closure was last called with
  first,    \* its first digit (Option<u64>)
  last,     \* its last digit (Option<u64>)
  values,   \* the values the closure has returned in this step
  total,    \* the running sum of this step
  rets,     \* what day1_step1 and day1_step2 have returned, in call order
  stdout    \* the lines printed so far

vars ==
  << input, pc, step, reads, k, line, first, last, values, total, rets, stdout >>

\* fs::read_to_string succeeds: the step starts folding the lines.
ReadOk(s) ==
  /\ pc = "read"
  /\ step = s
  /\ reads' = reads + 1
  /\ pc' = "map"
  /\ k' = 0
  /\ values' = << >>
  /\ total' = 0
  /\ UNCHANGED << input, step, line, first, last, rets, stdout >>

\* ReadErr with run going on to the next step after a failure.
ReadErrSwallowed(s) ==
  /\ pc = "read"
  /\ step = s
  /\ \E e \in IoErrors :
       /\ rets' = Append(rets, Err(e))
       /\ stdout' = Append(stdout, error_line(e))
  /\ reads' = reads + 1
  /\ pc' = IF s = 1 THEN "read" ELSE "done"
  /\ step' = IF s = 1 THEN 2 ELSE s
  /\ UNCHANGED << input, k, line, first, last, values, total >>

\* fs::read_to_string fails: `?` returns the error from the step and from
\* run, and main prints it.
ReadErr(s) ==
  /\ pc = "read"
  /\ step = s
  /\ \E e \in IoErrors :
       /\ rets' = Append(rets, Err(e))
       /\ stdout' = Append(stdout, error_line(e))
  /\ reads' = reads + 1
  /\ pc' = "exit"
  /\ UNCHANGED << input, step, k, line, first, last, values, total >>

\* The iterator yields the next line; the closure scans it and its value is
\* added to the sum.  A panic of a scanner aborts the process.
MapLine(s) ==
  /\ pc = "map"
  /\ step = s
  /\ k < Len(lines(input))
  /\ LET l == lines(input)[k + 1]
         f == step_first(s, l)
         g == step_last(s, l)
     IN  /\ line' = l
         /\ first' = f
         /\ last' = g
         /\ k' = k + 1
         /\ IF f = PANIC \/ g = PANIC
              THEN /\ pc' = "panicked"
                   /\ UNCHANGED << values, total >>
              ELSE /\ pc' = pc
                   /\ values' = Append(values, calibration(f, g))
                   /\ total' = total + calibration(f, g)
  /\ UNCHANGED << input, step, reads, rets, stdout >>

\* PrintTotal with main returning without printing "Done.".
PrintTotalOnly(s) ==
  /\ pc = "map"
  /\ step = s
  /\ k = Len(lines(input))
  /\ rets' = Append(rets, Ok(total))
  /\ stdout' = Append(stdout, total_line(s, total))
  /\ pc' = IF s = 1 THEN "read" ELSE "exit"
  /\ step' = IF s = 1 THEN 2 ELSE s
  /\ UNCHANGED << input, reads, k, line, first, last, values, total >>

\* The iterator is exhausted: the step returns Ok(sum) and run prints it.
PrintTotal(s) ==
  /\ pc = "map"
  /\ step = s
  /\ k = Len(lines(input))
  /\ rets' = Append(rets, Ok(total))
  /\ stdout' = Append(stdout, total_line(s, total))
  /\ pc' = IF s = 1 THEN "read" ELSE "done"
  /\ step' = IF s = 1 THEN 2 ELSE s
  /\ UNCHANGED << input, reads, k, line, first, last, values, total >>

\* run returned Ok(()): main prints "Done." and returns.
MainDone ==
  /\ pc = "done"
  /\ stdout' = Append(stdout, done_line)
  /\ pc' = "exit"
  /\ UNCHANGED << input, step, reads, k, line, first, last, values, total, rets >>

Next ==
  \/ \E s \in 1..2 : ReadOk(s)
  \/ \E s \in 1..2 : ReadErr(s)
  \/ \E s \in 1..2 : MapLine(s)
  \/ \E s \in 1..2 : PrintTotal(s)
  \/ MainDone

\* The state at the start of main, the input file holding `text`.
Start(text) ==
  /\ input = text
  /\ pc = "read"
  /\ step = 1
  /\ reads = 0
  /\ k = 0
  /\ line = << >>
  /\ first = None
  /\ last = None
  /\ values = << >>
  /\ total = 0
  /\ rets = << >>
  /\ stdout = << >>

\* ------------------------------------------------------------------------
\* Inputs
\* ------------------------------------------------------------------------

MaxLines == 2
MaxLen == 4
MaxTokens == 3
MaxPad == 2

\* All sequences of at most n elements of S.
SeqsUpTo(S, n) == UNION { [1..m -> S] : m \in 0..n }

RECURSIVE concat(_)
concat(ss) == IF ss = << >> THEN << >> ELSE Head(ss) \o concat(Tail(ss))

\* The text of a file with the given lines, each ended by `term`, the last
\* one only when `trailing`.
RECURSIVE text_of(_, _, _)
text_of(ls, term, trailing) ==
  IF ls = << >> THEN << >>
  ELSE IF Len(ls) = 1 THEN Head(ls) \o (IF trailing THEN term ELSE << >>)
  ELSE Head(ls) \o term \o text_of(Tail(ls), term, trailing)

\* The example document of part one (day1.rs, lines 36 to 39).
Example1 ==
  << as_bytes(<< "1", "a", "b", "c", "2" >>),
     as_bytes(<< "p", "q", "r", "3", "s", "t", "u", "8", "v", "w", "x" >>),
     as_bytes(<< "a", "1", "b", "2", "c", "3", "d", "4", "e", "5", "f" >>),
     as_bytes(<< "t", "r", "e", "b", "7", "u", "c", "h", "e", "t" >>) >>

\* The example document of part two (day1.rs, lines 147 to 153).
Example2 ==
  << as_bytes(<< "t", "w", "o", "1", "n", "i", "n", "e" >>),
     as_bytes(<< "e", "i", "g", "h", "t", "w", "o", "t", "h", "r", "e", "e" >>),
     as_bytes(<< "a", "b", "c", "o", "n", "e", "2", "t", "h", "r", "e", "e",
                 "x", "y", "z" >>),
     as_bytes(<< "x", "t", "w", "o", "n", "e", "3", "f", "o", "u", "r" >>),
     as_bytes(<< "4", "n", "i", "n", "e", "e", "i", "g", "h", "t", "s", "e",
                 "v", "e", "n", "2" >>),
     as_bytes(<< "z", "o", "n", "e", "i", "g", "h", "t", "2", "3", "4" >>),
     as_bytes(<< "7", "p", "q", "r", "s", "t", "s", "i", "x", "t", "e", "e",
                 "n" >>) >>

\* The lines the small documents are made of.
DocLines ==
  { << >>,
    as_bytes(<< "7" >>),
    as_bytes(<< "a", "b" >>),
    as_bytes(<< "t", "w", "o", "n", "e" >>),
    as_bytes(<< "o", "n", "e", "2", "x" >>) }

Terminators == { << LF >>, << CR, LF >> }

Docs ==
  { text_of(ls, term, trailing) :
      ls \in SeqsUpTo(DocLines, MaxLines) \cup { Example1, Example2 },
      term \in Terminators, trailing \in BOOLEAN }

\* Lines for the scanners: every byte sequence of at most MaxLen bytes over
\* a small alphabet, every concatenation of at most MaxTokens tokens, and
\* every overlapping pair of spellings between two paddings.
ScanBytes == { b("x"), b("7"), b("o"), b("n"), b("e") }

Tokens ==
  { ALL_DIGITS[j][1] : j \in 1..Len(ALL_DIGITS) }
    \cup { as_bytes(<< "7" >>), as_bytes(<< "0" >>), as_bytes(<< "x" >>),
           as_bytes(<< "O", "N", "E" >>) }

Overlaps ==
  { SubSeq(v[1], 1, Len(v[1]) - 1) \o w[1] :
      << v, w >> \in { p \in { ALL_DIGITS[j] : j \in 1..Len(ALL_DIGITS) }
                              \X { ALL_DIGITS[j] : j \in 1..Len(ALL_DIGITS) } :
                        p[1][1][Len(p[1][1])] = p[2][1][1] } }

Pads == SeqsUpTo({ b("x"), b("7") }, MaxPad)

ScanLines ==
  SeqsUpTo(ScanBytes, MaxLen)
    \cup { concat(ts) : ts \in SeqsUpTo(Tokens, MaxTokens) }
    \cup { pre \o o \o post : pre \in Pads, o \in Overlaps, post \in Pads }

\* ------------------------------------------------------------------------
\* Specifications
\* ------------------------------------------------------------------------

\* The program run on a small document or on one of the two examples.
Init == \E text \in Docs : Start(text)

Spec == Init /\ [][Next]_vars

\* The program run on a document of one line.
InitScan == \E l \in ScanLines : Start(l \o << LF >>)

SpecScan == InitScan /\ [][Next]_vars

\* ------------------------------------------------------------------------
\* What a line contains, stated without the scanners
\* ------------------------------------------------------------------------

\* The nine spellings and their values.
SpelledDigits ==
  { << as_bytes(<< "o", "n", "e" >>), 1 >>,
    << as_bytes(<< "t", "w", "o" >>), 2 >>,
    << as_bytes(<< "t", "h", "r", "e", "e" >>), 3 >>,
    << as_bytes(<< "f", "o", "u", "r" >>), 4 >>,
    << as_bytes(<< "f", "i", "v", "e" >>), 5 >>,
    << as_bytes(<< "s", "i", "x" >>), 6 >>,
    << as_bytes(<< "s", "e", "v", "e", "n" >>), 7 >>,
    << as_bytes(<< "e", "i", "g", "h", "t" >>), 8 >>,
    << as_bytes(<< "n", "i", "n", "e" >>), 9 >> }

\* w occurs in l from position p (1-based) on.
OccursAt(l, p, w) ==
  /\ p + Len(w) - 1 <= Len(l)
  /\ \A j \in 1..Len(w) : l[p + j - 1] = w[j]

\* A match is << first position, last position, value >>.
LiteralMatches(l) ==
  { << p, p, l[p] - b("0") >> :
      p \in { q \in 1..Len(l) : l[q] >= b("0") /\ l[q] <= b("9") } }

WordMatches(l) ==
  { << pw[1], pw[1] + Len(pw[2][1]) - 1, pw[2][2] >> :
      pw \in { qw \in (1..Len(l)) \X SpelledDigits : OccursAt(l, qw[1], qw[2][1]) } }

NamedMatches(l) == LiteralMatches(l) \cup WordMatches(l)

MatchesUnder(s, l) == IF s = 1 THEN LiteralMatches(l) ELSE NamedMatches(l)

\* The values of the matches that start leftmost, and that end rightmost.
Leftmost(M) == { m[3] : m \in { x \in M : \A y \in M : x[1] <= y[1] } }
Rightmost(M) == { m[3] : m \in { x \in M : \A y \in M : x[2] >= y[2] } }

\* An Option result is the one value of vals, or None when there is none.
Agrees(opt, vals) ==
  IF vals = {} THEN opt = None ELSE opt # None /\ vals = { opt[1] }

ValueOf(vals) == IF vals = {} THEN 0 ELSE CHOOSE v \in vals : TRUE

ExpectedValue(s, l) ==
  10 * ValueOf(Leftmost(MatchesUnder(s, l)))
    + ValueOf(Rightmost(MatchesUnder(s, l)))

RECURSIVE SumSeq(_)
SumSeq(q) == IF q = << >> THEN 0 ELSE Head(q) + SumSeq(Tail(q))

ExpectedTotal(s, text) ==
  SumSeq([j \in 1..Len(lines(text)) |-> ExpectedValue(s, lines(text)[j])])

\* Step s has just scanned `line`.
Scanned(s) == step = s /\ k >= 1 /\ pc \in { "map", "panicked" }

\* ------------------------------------------------------------------------
\* Properties
\* ------------------------------------------------------------------------

LiteralValueIsFirstAndLastDigit ==
  (Scanned(1) /\ pc = "map") =>
    /\ Agrees(first, Leftmost(LiteralMatches(line)))
    /\ Agrees(last, Rightmost(LiteralMatches(line)))
    /\ values[k] = ExpectedValue(1, line)
    /\ (LiteralMatches(line) = {} => values[k] = 0)
    /\ (Len(line) = 1 /\ LiteralMatches(line) # {}
          => values[k] = 11 * (line[1] - b("0")))

\* A line with a spelling ahead of its only digits has been scanned under
\* the literal rule, and the spelling was ignored.
LiteralScanIgnoredSpelling ==
  /\ Scanned(1)
  /\ pc = "map"
  /\ \E w \in WordMatches(line) : \A m \in LiteralMatches(line) : w[2] < m[1]
  /\ first = Some(7)
  /\ values[k] = 77

\* C3: in every state of a pass each processed line has contributed a value
\* in 0..99, a line without a digit under the active rule has contributed 0,
\* and the total is the sum of the k values, at most 99*k.
ContributionsBounded ==
  /\ Len(values) = k
  /\ \A j \in 1..Len(values) : values[j] \in 0..99
  /\ pc = "map" =>
       \A j \in 1..k :
         MatchesUnder(step, lines(input)[j]) = {} => values[j] = 0
  /\ total = SumSeq(values)
  /\ total <= 99 * k

\* Two lines of a document have been processed under the named rule, the
\* first of them empty.
EmptyLineContributedZero ==
  /\ pc = "map"
  /\ step = 2
  /\ k = 2
  /\ lines(input)[1] = << >>
  /\ values[1] = 0
  /\ values[2] > 0
  /\ total = values[2]

\* Some step has returned a read failure.
Failed == \E i \in 1..Len(rets) : rets[i][1] = "Err"

\* C4: when the document cannot be read the step returns the failure and no
\* total, the file is not read again, main prints the error's text as the last
\* line of the output, prints no "Done." and returns; when the read of part 1
\* fails nothing else is printed and part 2 is never attempted.
ReadFailureAborts ==
  Failed =>
    /\ pc = "exit"
    /\ rets[Len(rets)][1] = "Err"
    /\ \A i \in 1..(Len(rets) - 1) : rets[i][1] = "Ok"
    /\ reads = Len(rets)
    /\ Len(stdout) = Len(rets)
    /\ stdout[Len(stdout)] = error_line(rets[Len(rets)][2])
    /\ \A i \in 1..(Len(stdout) - 1) : stdout[i] = total_line(i, rets[i][2])
    /\ \A i \in 1..Len(stdout) : stdout[i] # done_line
    /\ rets[1][1] = "Err" =>
         /\ reads = 1
         /\ rets = << Err(rets[1][2]) >>
         /\ stdout = << error_line(rets[1][2]) >>

\* The read of part 1 has failed and main has returned.
FirstReadFailed ==
  /\ pc = "exit"
  /\ reads = 1
  /\ rets = << Err("NotFound") >>
  /\ stdout = << error_line("NotFound") >>

\* The overlapping pairs of a line: << v, w, p >> where the spelling v[1]
\* starts at p, the spelling w[1] starts at its last letter, no match starts
\* before v and none ends after w.
OverlapCases(l) ==
  { c \in SpelledDigits \X SpelledDigits \X (1..Len(l)) :
      /\ OccursAt(l, c[3], c[1][1])
      /\ OccursAt(l, c[3] + Len(c[1][1]) - 1, c[2][1])
      /\ \A m \in NamedMatches(l) :
           /\ m[1] >= c[3]
           /\ m[2] <= c[3] + Len(c[1][1]) + Len(c[2][1]) - 2 }

\* C5: under the named rule, when two spellings overlap in a letter and no
\* other match precedes the first or follows the second, the first digit is
\* the value of the first spelling and the last digit the value of the second.
OverlappingSpellingsBothRecognised ==
  Scanned(2) =>
    \A c \in OverlapCases(line) :
      /\ first = Some(c[1][2])
      /\ last = Some(c[2][2])
      /\ pc = "map" => values[k] = 10 * c[1][2] + c[2][2]

\* "twone" between two bytes that match nothing has been scanned and has
\* yielded 21.
TwoneYields21 ==
  /\ Scanned(2)
  /\ pc = "map"
  /\ line = as_bytes(<< "x", "t", "w", "o", "n", "e", "x" >>)
  /\ OverlapCases(line) # {}
  /\ values[k] = 21

\* The first step has processed the four lines of the part one example.
Example1Summed ==
  /\ lines(input) = Example1
  /\ step = 1
  /\ pc = "map"
  /\ k = 4

\* C6 as stated: the lines of the part one example yield 12, 38, 55 and 77,
\* and their sum is 142.
Example1ValuesAsStated ==
  Example1Summed => values = << 12, 38, 55, 77 >> /\ total = 142

\* C6 amended: the lines of the part one example yield 12, 38, 15 and 77,
\* and their sum is 142.
Example1Values ==
  Example1Summed => values = << 12, 38, 15, 77 >> /\ total = 142

\* The part one example has been summed to 142 with a third value of 15.
Example1Reached ==
  Example1Summed /\ values[3] = 15 /\ total = 142

\* The second step has processed the seven lines of the part two example.
Example2Summed ==
  /\ lines(input) = Example2
  /\ step = 2
  /\ pc = "map"
  /\ k = 7

\* C7: under the named rule the lines of the part two example yield 29, 83,
\* 13, 24, 42, 14 and 76, and their sum is 281.
Example2Values ==
  Example2Summed =>
    values = << 29, 83, 13, 24, 42, 14, 76 >> /\ total = 281

\* The part two example has been summed to 281.
Example2Reached ==
  Example2Summed /\ Len(values) = 7 /\ total = 281

\* Both reads have succeeded and main has returned.
BothPassesDone == pc = "exit" /\ ~Failed

\* The part 1 line is printed before the second read of the file.
Part1PrintedBeforeSecondPass ==
  reads = 2 =>
    /\ Len(stdout) >= 1
    /\ stdout[1] = total_line(1, ExpectedTotal(1, input))

\* C8 as stated: when both reads succeed the output consists of two lines,
\* the part 1 total line and the part 2 total line, and the part 1 line is
\* printed before the second pass starts.
OutputIsTwoLines ==
  /\ BothPassesDone =>
       stdout = << total_line(1, ExpectedTotal(1, input)),
                   total_line(2, ExpectedTotal(2, input)) >>
  /\ Part1PrintedBeforeSecondPass

\* C8 amended: when both reads succeed the output consists of three lines,
\* the part 1 total line, the part 2 total line and "Done.", and the part 1
\* line is printed before the second pass starts.
OutputIsTwoLinesAndDone ==
  /\ BothPassesDone =>
       stdout = << total_line(1, ExpectedTotal(1, input)),
                   total_line(2, ExpectedTotal(2, input)),
                   done_line >>
  /\ Part1PrintedBeforeSecondPass

\* Both passes have succeeded on a document whose two totals differ.
BothTotalsPrinted ==
  /\ BothPassesDone
  /\ Len(stdout) = 3
  /\ stdout[1][2] # stdout[2][2]
  /\ stdout[3] = done_line

\* C9: first_named_digit and last_named_digit never panic, whatever the
\* length of the line; a line shorter than three bytes is matched by its
\* literal digits only and contributes 0 when it has none.
NamedScanNeverPanics ==
  /\ pc # "panicked"
  /\ first # PANIC
  /\ last # PANIC
  /\ (Scanned(2) /\ Len(line) < MIN_NAMED_DIGIT_LEN) =>
       /\ Agrees(first, Leftmost(LiteralMatches(line)))
       /\ Agrees(last, Rightmost(LiteralMatches(line)))
       /\ LiteralMatches(line) = {} => values[k] = 0

\* A line of two bytes without a literal digit has been scanned under the
\* named rule and has contributed 0.
ShortLineContributedZero ==
  /\ Scanned(2)
  /\ pc = "map"
  /\ Len(line) = 2
  /\ LiteralMatches(line) = {}
  /\ first = None
  /\ last = None
  /\ values[k] = 0

\* slice_to_first_u64 and slice_to_last_u64 over a table in another order,
\* with the literal digit tested before or after the spellings.
slice_to_first_u64_with(slice, table, digit_first) ==
  IF slice = PANIC \/ Len(slice) = 0
    THEN PANIC
    ELSE LET digit == byte_to_u64(slice[1])
             word  == first_needle_from(slice, table, 1)
         IN  IF digit_first
               THEN IF digit # None THEN digit ELSE word
               ELSE IF word # None THEN word ELSE digit

slice_to_last_u64_with(slice, table, digit_first) ==
  IF slice = PANIC \/ Len(slice) = 0
    THEN PANIC
    ELSE LET digit == byte_to_u64(slice[Len(slice)])
             word  == last_needle_from(slice, table, 1)
         IN  IF digit_first
               THEN IF digit # None THEN digit ELSE word
               ELSE IF word # None THEN word ELSE digit

RECURSIVE first_named_loop_with(_, _, _, _, _)
first_named_loop_with(l, i, hi, table, digit_first) ==
  IF i > hi
    THEN None
    ELSE LET digit == slice_to_first_u64_with(
                        slice_of(l, i, min(i + MAX_NAMED_DIGIT_LEN, Len(l))),
                        table, digit_first)
         IN  IF digit # None
               THEN digit
               ELSE first_named_loop_with(l, i + 1, hi, table, digit_first)

first_named_digit_with(l, table, digit_first) ==
  LET digit ==
        IF Len(l) < MIN_NAMED_DIGIT_LEN THEN first_digit(l)
        ELSE IF Len(l) = MIN_NAMED_DIGIT_LEN
          THEN slice_to_first_u64_with(l, table, digit_first)
        ELSE first_named_loop_with(l, 0, Len(l) - MIN_NAMED_DIGIT_LEN,
                                   table, digit_first)
  IN  IF digit # None THEN digit ELSE first_digit(l)

RECURSIVE last_named_loop_with(_, _, _, _)
last_named_loop_with(l, i, table, digit_first) ==
  IF i < MIN_NAMED_DIGIT_LEN
    THEN None
    ELSE LET digit == slice_to_last_u64_with(
                        slice_of(l, i - min(i, MAX_NAMED_DIGIT_LEN), i),
                        table, digit_first)
         IN  IF digit # None
               THEN digit
               ELSE last_named_loop_with(l, i - 1, table, digit_first)

last_named_digit_with(l, table, digit_first) ==
  LET digit ==
        IF Len(l) < MIN_NAMED_DIGIT_LEN THEN last_digit(l)
        ELSE IF Len(l) = MIN_NAMED_DIGIT_LEN
          THEN slice_to_last_u64_with(l, table, digit_first)
        ELSE last_named_loop_with(l, Len(l), table, digit_first)
  IN  IF digit # None THEN digit ELSE last_digit(l)

\* The orders of the table that are tried: every rotation of ALL_DIGITS and
\* every rotation reversed, so that every two entries come in both orders.
Rotate(t, r) == [i \in 1..Len(t) |-> t[((i + r - 1) % Len(t)) + 1]]
Reverse(t) == [i \in 1..Len(t) |-> t[Len(t) + 1 - i]]
TableOrders ==
  { Rotate(ALL_DIGITS, r) : r \in 0..(Len(ALL_DIGITS) - 1) }
    \cup { Reverse(Rotate(ALL_DIGITS, r)) : r \in 0..(Len(ALL_DIGITS) - 1) }

\* The recognisers (0 for the literal digit, j for ALL_DIGITS[j]) that match
\* as a prefix of the line from position p on, and as a suffix of the line
\* up to position p.
PrefixRecognisers(l, p) ==
  { j \in 0..Len(ALL_DIGITS) :
      IF j = 0
        THEN byte_to_u64(l[p]) # None
        ELSE starts_with(SubSeq(l, p, Len(l)), ALL_DIGITS[j][1]) }

SuffixRecognisers(l, p) ==
  { j \in 0..Len(ALL_DIGITS) :
      IF j = 0
        THEN byte_to_u64(l[p]) # None
        ELSE ends_with(SubSeq(l, 1, p), ALL_DIGITS[j][1]) }

\* C10: at any position of a line at most one of the ten recognisers matches
\* as a prefix and at most one as a suffix, and first_named_digit and
\* last_named_digit return the same result for the table in another order
\* and with the literal digit tested after the spellings.
WinnerDecidedByPosition ==
  Scanned(2) =>
    /\ \A p \in 1..Len(line) :
         /\ Cardinality(PrefixRecognisers(line, p)) <= 1
         /\ Cardinality(SuffixRecognisers(line, p)) <= 1
    /\ \A table \in TableOrders : \A digit_first \in BOOLEAN :
         /\ first_named_digit_with(line, table, digit_first) = first
         /\ last_named_digit_with(line, table, digit_first) = last

\* A line holding a literal digit and two spellings, with different first
\* and last digits, has been scanned under the named rule.
SeveralRecognisersInLine ==
  /\ Scanned(2)
  /\ LiteralMatches(line) # {}
  /\ Cardinality(WordMatches(line)) >= 2
  /\ first # None
  /\ last # None
  /\ first # last

====
